---- MODULE Spec2Model ----
(***************************************************************************)
(* A model of library.py: the catalog service LibraryLogic over the JSON   *)
(* record store LibraryDataAccess.                                         *)
(*                                                                         *)
(* Text is a sequence of one-character strings, so that lower(), the       *)
(* substring test `in` and str(year) are computed rather than assumed.     *)
(* An Optional[int] is a sequence of length at most one: None is << >>     *)
(* and the integer n is <<n>>.                                             *)
(***************************************************************************)
EXTENDS Integers, Sequences, FiniteSets, TLC

VARIABLES
    file,          \* the content of the backing file (LibraryDataAccess.filename)
    books,         \* LibraryLogic.books
    ctor,          \* how LibraryLogic.__init__ ended: what load_books returned or raised
    file0,         \* history: the backing file's content when the service was constructed
    lastOp,        \* history: the last call made on the service and its arguments
    ret,           \* history: how the last call ended (the message returned, or the exception)
    wrote,         \* history: whether the last call wrote the backing file
    result,        \* history: the list the last search_books returned
    lastAssigned,  \* history: the id the latest add_book assigned (None before the first)
    undone         \* history: the id n when the last call was a successful remove_book(n)
                   \*          made right after the add_book that assigned n, else None

vars == <<file, books, ctor, file0, lastOp, ret, wrote, result, lastAssigned, undone>>

-----------------------------------------------------------------------------
(* Bounds of the model.                                                    *)

\* add_book is called only while the collection holds fewer than MaxId books
\* and the id it would assign is at most MaxId.
MaxId == 3

-----------------------------------------------------------------------------
(* Values.                                                                 *)

None == << >>
Some(n) == <<n>>

\* BookStatus: the members and their values (transliterated to ASCII:
\* "v nalichii" is the source's "в наличии", "vydana" its "выдана").
AVAILABLE == "AVAILABLE"
BORROWED == "BORROWED"
BookStatus == {AVAILABLE, BORROWED}

StatusValue(status) == IF status = AVAILABLE THEN "v nalichii" ELSE "vydana"

StatusValues == {StatusValue(s) : s \in BookStatus}

\* BookStatus(value): the member with that value (the caller checks there is one).
StatusOfValue(value) == CHOOSE s \in BookStatus : StatusValue(s) = value

\* Book.__init__: status defaults to AVAILABLE and book_id to None.
Book(title, author, year, status, book_id) ==
    [title |-> title, author |-> author, year |-> year,
     status |-> status, book_id |-> book_id]

\* The parameters Book.__init__ accepts, and those without a default.
BookParams == {"title", "author", "year", "status", "book_id"}
BookRequired == {"title", "author", "year"}

-----------------------------------------------------------------------------
(* Text operations.                                                        *)

\* The cased letters of the model's alphabet: <<upper, lower>>.
CasePairs == {<<"A", "a">>, <<"D", "d">>, <<"E", "e">>, <<"H", "h">>,
              <<"N", "n">>, <<"U", "u">>}

\* str.lower() on one character.
lower_char(c) ==
    IF \E p \in CasePairs : p[1] = c
    THEN (CHOOSE p \in CasePairs : p[1] = c)[2]
    ELSE c

\* str.lower()
lower(s) == [i \in 1..Len(s) |-> lower_char(s[i])]

\* `t in s` on strings: t occurs in s as a contiguous run.
str_in(t, s) ==
    \E k \in 0..(Len(s) - Len(t)) : SubSeq(s, k + 1, k + Len(t)) = t

Digits == <<"0", "1", "2", "3", "4", "5", "6", "7", "8", "9">>

RECURSIVE str_nat(_)
\* str(n) for n >= 0.
str_nat(n) ==
    IF n < 10 THEN <<Digits[n + 1]>>
    ELSE str_nat(n \div 10) \o <<Digits[(n % 10) + 1]>>

\* str(year) for an int.
str_int(n) == IF n < 0 THEN <<"-">> \o str_nat(-n) ELSE str_nat(n)

-----------------------------------------------------------------------------
(* LibraryDataAccess: the record store.                                    *)
(* A file is absent, empty (size 0), text that is no JSON ("garbage"), or  *)
(* a JSON list of objects ("json", data: a sequence of records whose       *)
(* domain is the object's keys; book_id there is null, << >>, or <<n>>).   *)

NoFile == [kind |-> "absent", data |-> << >>]
EmptyFile == [kind |-> "empty", data |-> << >>]
GarbageFile == [kind |-> "garbage", data |-> << >>]
JsonFile(data) == [kind |-> "json", data |-> data]

Loaded(bs, printed) == [books |-> bs, exc |-> "none", printed |-> printed]
Raised(exc) == [books |-> << >>, exc |-> exc, printed |-> FALSE]

RECURSIVE load_entries(_, _, _)
\* The loop of load_books over the parsed list, from entry i on.
load_entries(data, i, acc) ==
    IF i > Len(data) THEN Loaded(acc, FALSE)
    ELSE LET book_data == data[i] IN
         IF "status" \notin DOMAIN book_data
         THEN Loaded(<< >>, TRUE)              \* KeyError: caught, reported
         ELSE IF book_data.status \notin StatusValues
         THEN Raised("ValueError")             \* BookStatus(...): not caught
         ELSE IF ~ (BookRequired \subseteq DOMAIN book_data
                    /\ DOMAIN book_data \subseteq BookParams)
         THEN Raised("TypeError")              \* Book(**book_data): not caught
         ELSE load_entries(data, i + 1,
                  Append(acc,
                         Book(book_data.title, book_data.author, book_data.year,
                              StatusOfValue(book_data.status),
                              IF "book_id" \in DOMAIN book_data
                              THEN book_data.book_id ELSE None)))

\* LibraryDataAccess.load_books
load_books(f) ==
    IF f.kind \in {"absent", "empty"} THEN Loaded(<< >>, FALSE)
    ELSE IF f.kind = "garbage" THEN Loaded(<< >>, TRUE)   \* JSONDecodeError: caught
    ELSE load_entries(f.data, 1, << >>)

\* LibraryDataAccess.save_books: the content the file has after the call.
save_books(bs) ==
    JsonFile([i \in 1..Len(bs) |->
                 [title |-> bs[i].title, author |-> bs[i].author,
                  year |-> bs[i].year, status |-> StatusValue(bs[i].status),
                  book_id |-> bs[i].book_id]])

-----------------------------------------------------------------------------
(* Inputs.                                                                 *)

Dune == <<"D", "u", "n", "e">>
Herb == <<"H", "e", "r", "b">>
dUNE == <<"d", "U", "N", "E">>
Anne == <<"A", "n", "n", "e">>

\* The arguments add_book is called with.
BookInputs == {[title |-> Dune, author |-> Herb, year |-> 1965],
               [title |-> dUNE, author |-> Anne, year |-> 0]}

\* The ids remove_book and change_status are called with.
IdInputs == 0..MaxId

\* The terms search_books is called with.
SearchTerms == {<< >>, <<"u", "n">>, <<"H", "E">>, <<"N", "n">>,
                <<"9", "6">>, <<"0">>}

Entry(title, author, year, value, book_id) ==
    [title |-> title, author |-> author, year |-> year,
     status |-> value, book_id |-> book_id]

\* The contents the backing file may have when the service is constructed.
InitFiles ==
    {NoFile, EmptyFile, GarbageFile,
     \* well-formed
     JsonFile(<<Entry(Dune, Herb, 1965, "vydana", Some(2)),
                Entry(dUNE, Anne, 0, "v nalichii", Some(1))>>),
     JsonFile(<<Entry(Dune, Herb, 1965, "v nalichii", Some(-1))>>),
     JsonFile(<<Entry(Dune, Herb, 1965, "v nalichii", Some(1)),
                Entry(dUNE, Anne, 0, "v nalichii", Some(1))>>),
     JsonFile(<<[title |-> Dune, author |-> Herb, year |-> 1965,
                 status |-> "v nalichii"]>>),
     \* malformed
     JsonFile(<<Entry(Dune, Herb, 1965, "vydana", Some(1)),
                [title |-> dUNE, author |-> Anne, year |-> 0, book_id |-> Some(2)]>>),
     JsonFile(<<[author |-> Herb, year |-> 1965, status |-> "vydana",
                 book_id |-> Some(1)]>>),
     JsonFile(<<[title |-> Dune, author |-> Herb, status |-> "vydana",
                 book_id |-> Some(1)]>>),
     JsonFile(<<Entry(Dune, Herb, 1965, "lost", Some(1))>>),
     JsonFile(<<[title |-> Dune, author |-> Herb, year |-> 1965,
                 status |-> "vydana", book_id |-> Some(1), isbn |-> 7]>>)}

-----------------------------------------------------------------------------
(* LibraryLogic: the catalog service.                                      *)

RECURSIVE max_id(_, _)
\* max(ids) over a non-empty list of ints, scanning from position i.
max_id(ids, i) ==
    IF i = Len(ids) THEN ids[i]
    ELSE LET m == max_id(ids, i + 1) IN IF ids[i] > m THEN ids[i] ELSE m

\* Whether _generate_book_id raises: max() over, or 1 added to, a None id.
generate_book_id_raises(bs) == \E i \in 1..Len(bs) : bs[i].book_id = None

\* Mutant of generate_book_id: the maximum taken over the ids and 0.
generate_book_id_with_zero(bs) ==
    LET m == IF bs = << >> THEN 0
             ELSE max_id([i \in 1..Len(bs) |-> bs[i].book_id[1]], 1)
    IN (IF m < 0 THEN 0 ELSE m) + 1

\* LibraryLogic._generate_book_id, when it does not raise.
generate_book_id(bs) ==
    (IF bs = << >> THEN 0
     ELSE max_id([i \in 1..Len(bs) |-> bs[i].book_id[1]], 1)) + 1

\* next((book for book in books if book.book_id == book_id), None):
\* the position of the first such book, 0 for None.
find_book(bs, book_id) ==
    IF \E i \in 1..Len(bs) : bs[i].book_id = Some(book_id)
    THEN CHOOSE i \in 1..Len(bs) :
             /\ bs[i].book_id = Some(book_id)
             /\ \A j \in 1..(i - 1) : bs[j].book_id # Some(book_id)
    ELSE 0

\* list.remove of the book at position i.
remove_at(bs, i) == SubSeq(bs, 1, i - 1) \o SubSeq(bs, i + 1, Len(bs))

\* Mutant of search_match: the term is not lowered before the comparison.
search_match_term_not_lowered(book, search_term) ==
    \/ str_in(search_term, lower(book.title))
    \/ str_in(search_term, lower(book.author))
    \/ str_in(search_term, str_int(book.year))

\* The condition of search_books' comprehension.
search_match(book, search_term) ==
    \/ str_in(lower(search_term), lower(book.title))
    \/ str_in(lower(search_term), lower(book.author))
    \/ str_in(search_term, str_int(book.year))

RECURSIVE filter_books(_, _, _)
\* The list comprehension of search_books, from position i on.
filter_books(bs, search_term, i) ==
    IF i > Len(bs) THEN << >>
    ELSE (IF search_match(bs[i], search_term) THEN <<bs[i]>> ELSE << >>)
         \o filter_books(bs, search_term, i + 1)

Call(op, id, status, term) == [op |-> op, id |-> id, status |-> status, term |-> term]

\* LibraryLogic.__init__ on a backing file with content f.
Init ==
    /\ file0 \in InitFiles
    /\ file = file0
    /\ ctor = load_books(file0)
    /\ books = ctor.books
    /\ lastOp = Call("__init__", 0, "-", << >>)
    /\ ret = IF ctor.exc = "none" THEN "constructed" ELSE ctor.exc
    /\ wrote = FALSE
    /\ result = << >>
    /\ lastAssigned = None
    /\ undone = None

\* Mutant of add_book: the id comes from a counter that never goes back
\* (one more than the larger of the latest id assigned and the largest id present).
add_book_counter(title, author, year) ==
    /\ ctor.exc = "none"
    /\ lastOp' = Call("add_book", 0, "-", << >>)
    /\ result' = << >>
    /\ undone' = None
    /\ UNCHANGED <<ctor, file0>>
    /\ IF generate_book_id_raises(books)
       THEN /\ ret' = "TypeError"
            /\ wrote' = FALSE
            /\ UNCHANGED <<books, file, lastAssigned>>
       ELSE LET by_max == generate_book_id(books)
                new_id == IF lastAssigned # None /\ lastAssigned[1] >= by_max
                          THEN lastAssigned[1] + 1 ELSE by_max
                new_book == Book(title, author, year, AVAILABLE, Some(new_id))
            IN /\ Len(books) < MaxId /\ new_id <= MaxId
               /\ books' = Append(books, new_book)
               /\ file' = save_books(books')
               /\ wrote' = TRUE
               /\ ret' = "added"
               /\ lastAssigned' = Some(new_id)

\* Mutant of add_book: the id is the number of books plus one.
add_book_id_by_count(title, author, year) ==
    /\ ctor.exc = "none"
    /\ lastOp' = Call("add_book", 0, "-", << >>)
    /\ result' = << >>
    /\ undone' = None
    /\ UNCHANGED <<ctor, file0>>
    /\ IF generate_book_id_raises(books)
       THEN /\ ret' = "TypeError"
            /\ wrote' = FALSE
            /\ UNCHANGED <<books, file, lastAssigned>>
       ELSE LET new_id == Len(books) + 1
                new_book == Book(title, author, year, AVAILABLE, Some(new_id))
            IN /\ Len(books) < MaxId /\ new_id <= MaxId
               /\ books' = Append(books, new_book)
               /\ file' = save_books(books')
               /\ wrote' = TRUE
               /\ ret' = "added"
               /\ lastAssigned' = Some(new_id)

\* LibraryLogic.add_book
add_book(title, author, year) ==
    /\ ctor.exc = "none"
    /\ lastOp' = Call("add_book", 0, "-", << >>)
    /\ result' = << >>
    /\ undone' = None
    /\ UNCHANGED <<ctor, file0>>
    /\ IF generate_book_id_raises(books)
       THEN /\ ret' = "TypeError"
            /\ wrote' = FALSE
            /\ UNCHANGED <<books, file, lastAssigned>>
       ELSE LET new_id == generate_book_id(books)
                new_book == Book(title, author, year, AVAILABLE, Some(new_id))
            IN /\ Len(books) < MaxId /\ new_id <= MaxId
               /\ books' = Append(books, new_book)
               /\ file' = save_books(books')
               /\ wrote' = TRUE
               /\ ret' = "added"
               /\ lastAssigned' = Some(new_id)

\* Mutant of remove_book: the book is dropped from memory and the file is not rewritten.
remove_book_not_saved(book_id) ==
    /\ ctor.exc = "none"
    /\ lastOp' = Call("remove_book", book_id, "-", << >>)
    /\ result' = << >>
    /\ UNCHANGED <<ctor, file0, lastAssigned, file>>
    /\ undone' = None
    /\ LET i == find_book(books, book_id) IN
       IF i = 0
       THEN /\ ret' = "not found"
            /\ wrote' = FALSE
            /\ UNCHANGED books
       ELSE /\ books' = remove_at(books, i)
            /\ wrote' = FALSE
            /\ ret' = "removed"

\* Mutant of remove_book: the file is rewritten also when no book has the id.
remove_book_always_saved(book_id) ==
    /\ ctor.exc = "none"
    /\ lastOp' = Call("remove_book", book_id, "-", << >>)
    /\ result' = << >>
    /\ UNCHANGED <<ctor, file0, lastAssigned>>
    /\ undone' = None
    /\ LET i == find_book(books, book_id) IN
       /\ books' = IF i = 0 THEN books ELSE remove_at(books, i)
       /\ ret' = IF i = 0 THEN "not found" ELSE "removed"
       /\ file' = save_books(books')
       /\ wrote' = TRUE

\* LibraryLogic.remove_book
remove_book(book_id) ==
    /\ ctor.exc = "none"
    /\ lastOp' = Call("remove_book", book_id, "-", << >>)
    /\ result' = << >>
    /\ UNCHANGED <<ctor, file0, lastAssigned>>
    /\ LET i == find_book(books, book_id) IN
       IF i = 0
       THEN /\ ret' = "not found"
            /\ wrote' = FALSE
            /\ undone' = None
            /\ UNCHANGED <<books, file>>
       ELSE /\ books' = remove_at(books, i)
            /\ file' = save_books(books')
            /\ wrote' = TRUE
            /\ ret' = "removed"
            /\ undone' = IF lastOp.op = "add_book" /\ ret = "added"
                            /\ lastAssigned = Some(book_id)
                         THEN Some(book_id) ELSE None

\* LibraryLogic.search_books
search_books(search_term) ==
    /\ ctor.exc = "none"
    /\ lastOp' = Call("search_books", 0, "-", search_term)
    /\ result' = filter_books(books, search_term, 1)
    /\ ret' = "results"
    /\ wrote' = FALSE
    /\ undone' = None
    /\ UNCHANGED <<books, file, ctor, file0, lastAssigned>>

\* Mutant of change_status: the file is rewritten also when no book has the id.
change_status_always_saved(book_id, new_status) ==
    /\ ctor.exc = "none"
    /\ lastOp' = Call("change_status", book_id, new_status, << >>)
    /\ result' = << >>
    /\ undone' = None
    /\ UNCHANGED <<ctor, file0, lastAssigned>>
    /\ LET i == find_book(books, book_id) IN
       IF i # 0
       THEN IF books[i].status = new_status
            THEN /\ ret' = "already"
                 /\ wrote' = FALSE
                 /\ UNCHANGED <<books, file>>
            ELSE /\ books' = [books EXCEPT ![i].status = new_status]
                 /\ file' = save_books(books')
                 /\ wrote' = TRUE
                 /\ ret' = "changed"
       ELSE /\ ret' = "not found"
            /\ file' = save_books(books)
            /\ wrote' = TRUE
            /\ UNCHANGED books

\* Mutant of change_status: the file is rewritten also when the book already
\* has the new status.
change_status_saved_when_same(book_id, new_status) ==
    /\ ctor.exc = "none"
    /\ lastOp' = Call("change_status", book_id, new_status, << >>)
    /\ result' = << >>
    /\ undone' = None
    /\ UNCHANGED <<ctor, file0, lastAssigned>>
    /\ LET i == find_book(books, book_id) IN
       IF i # 0
       THEN /\ ret' = IF books[i].status = new_status THEN "already" ELSE "changed"
            /\ books' = [books EXCEPT ![i].status = new_status]
            /\ file' = save_books(books')
            /\ wrote' = TRUE
       ELSE /\ ret' = "not found"
            /\ wrote' = FALSE
            /\ UNCHANGED <<books, file>>

\* Mutant of change_status: every book of the collection is given the new status.
change_status_of_all(book_id, new_status) ==
    /\ ctor.exc = "none"
    /\ lastOp' = Call("change_status", book_id, new_status, << >>)
    /\ result' = << >>
    /\ undone' = None
    /\ UNCHANGED <<ctor, file0, lastAssigned>>
    /\ LET i == find_book(books, book_id) IN
       IF i # 0
       THEN IF books[i].status = new_status
            THEN /\ ret' = "already"
                 /\ wrote' = FALSE
                 /\ UNCHANGED <<books, file>>
            ELSE /\ books' = [j \in 1..Len(books) |->
                                 [books[j] EXCEPT !.status = new_status]]
                 /\ file' = save_books(books')
                 /\ wrote' = TRUE
                 /\ ret' = "changed"
       ELSE /\ ret' = "not found"
            /\ wrote' = FALSE
            /\ UNCHANGED <<books, file>>

\* LibraryLogic.change_status
change_status(book_id, new_status) ==
    /\ ctor.exc = "none"
    /\ lastOp' = Call("change_status", book_id, new_status, << >>)
    /\ result' = << >>
    /\ undone' = None
    /\ UNCHANGED <<ctor, file0, lastAssigned>>
    /\ LET i == find_book(books, book_id) IN
       IF i # 0
       THEN IF books[i].status = new_status
            THEN /\ ret' = "already"
                 /\ wrote' = FALSE
                 /\ UNCHANGED <<books, file>>
            ELSE /\ books' = [books EXCEPT ![i].status = new_status]
                 /\ file' = save_books(books')
                 /\ wrote' = TRUE
                 /\ ret' = "changed"
       ELSE /\ ret' = "not found"
            /\ wrote' = FALSE
            /\ UNCHANGED <<books, file>>

Next ==
    \/ \E b \in BookInputs : add_book(b.title, b.author, b.year)
    \/ \E id \in IdInputs : remove_book(id)
    \/ \E term \in SearchTerms : search_books(term)
    \/ \E id \in IdInputs, s \in BookStatus : change_status(id, s)

Spec == Init /\ [][Next]_vars

-----------------------------------------------------------------------------
(* Vocabulary of the properties.                                           *)

HasId(bs, id) == \E i \in 1..Len(bs) : bs[i].book_id = Some(id)

\* Every id is an integer and no two books share one.
DistinctIntIds(bs) ==
    /\ \A i \in 1..Len(bs) : bs[i].book_id # None
    /\ \A i, j \in 1..Len(bs) : i # j => bs[i].book_id # bs[j].book_id

IdSet(bs) == {bs[i].book_id[1] : i \in {k \in 1..Len(bs) : bs[k].book_id # None}}

\* The largest element of a set of integers, 0 for the empty set.
MaxOrZero(S) == IF S = {} THEN 0 ELSE CHOOSE m \in S : \A x \in S : x <= m

Last(bs) == bs[Len(bs)]
Front(bs) == SubSeq(bs, 1, Len(bs) - 1)

Added == lastOp.op = "add_book" /\ ret = "added"
AddedNext == lastOp'.op = "add_book" /\ ret' = "added"

\* An object of the file that Book(**book_data) accepts with a status value.
WellFormedEntry(e) ==
    /\ BookRequired \cup {"status"} \subseteq DOMAIN e
    /\ DOMAIN e \subseteq BookParams
    /\ e.status \in StatusValues

\* The file is absent, empty, or a list of well-formed objects.
ValidFile(f) ==
    \/ f.kind \in {"absent", "empty"}
    \/ f.kind = "json" /\ \A i \in 1..Len(f.data) : WellFormedEntry(f.data[i])

\* The file has content that is not a list of well-formed objects.
Malformed(f) == ~ ValidFile(f)

-----------------------------------------------------------------------------
(* C1 *)

\* C1: when the service was constructed from an absent, empty or well-formed
\* file, then after every call the collection read back from the backing file
\* is the in-memory collection (same records, fields and order), and every
\* successful mutation has written the file with the whole collection.
C1_FileHoldsCollection ==
    (ValidFile(file0) /\ ctor.exc = "none") =>
        /\ load_books(file).exc = "none"
        /\ load_books(file).books = books
        /\ (ret \in {"added", "removed", "changed"} =>
                wrote /\ file.kind = "json" /\ Len(file.data) = Len(books))

C1_Witness ==
    /\ file0 = EmptyFile
    /\ lastOp.op = "remove_book" /\ ret = "removed"
    /\ Len(books) = 2 /\ books[1].status = BORROWED
    /\ wrote

-----------------------------------------------------------------------------
(* C2 *)

\* C2: from a store whose loaded ids are distinct integers (or none), no two
\* records ever share a book_id, and every add_book appends a record whose id
\* is max(ids present just before, or 0 if none) + 1.
C2_UniqueIdsMaxPlusOne ==
    /\ [](DistinctIntIds(ctor.books) => DistinctIntIds(books))
    /\ [][(DistinctIntIds(ctor.books) /\ AddedNext) =>
             /\ Len(books') = Len(books) + 1
             /\ Last(books').book_id = Some(MaxOrZero(IdSet(books)) + 1)]_vars

C2_Witness ==
    /\ DistinctIntIds(ctor.books) /\ ctor.books # << >>
    /\ Added
    /\ Len(books) = 2
    /\ books[1].book_id = Some(-1) /\ books[2].book_id = Some(0)

-----------------------------------------------------------------------------
(* C3 *)

\* C3 as stated: each id add_book assigns is strictly greater than every id an
\* earlier add_book of the session assigned (so no id is ever assigned twice).
C3_NeverReused ==
    [][(AddedNext /\ lastAssigned # None) =>
          lastAssigned'[1] > lastAssigned[1]]_vars

\* C3 amended: each id add_book assigns is strictly greater than the id of
\* every record present at that time, and two add_book calls in a row assign
\* increasing ids; the id of a removed record may be assigned again.
C3_GreaterThanPresent ==
    [][AddedNext =>
          /\ \A x \in IdSet(books) : lastAssigned'[1] > x
          /\ Last(books').book_id = lastAssigned'
          /\ (Added => lastAssigned'[1] > lastAssigned[1])]_vars

C3_Witness ==
    /\ Added
    /\ Len(books) = 2
    /\ lastAssigned = Some(3)
    /\ books[1].book_id = Some(2)

-----------------------------------------------------------------------------
(* C4 *)

\* C4: remove_book(id) and change_status(id, s) with an id no record has
\* return the not-found message (no exception), leave the collection as it
\* was and do not write the backing file.
C4_NotFoundNoEffect ==
    [][(lastOp'.op \in {"remove_book", "change_status"}
        /\ ~ HasId(books, lastOp'.id)) =>
          /\ ret' = "not found"
          /\ books' = books
          /\ file' = file
          /\ wrote' = FALSE]_vars

C4_Witness ==
    /\ lastOp.op = "change_status" /\ lastOp.id = 3
    /\ ret = "not found"
    /\ Len(books) = 2
    /\ ~ wrote

-----------------------------------------------------------------------------
(* C5 *)

\* C5: change_status(id, s) on an existing record, called again with the same
\* arguments: the second call leaves the collection as the first left it,
\* returns the "already has that status" message and does not write the file.
C5_SecondCallNoOp ==
    [][(/\ lastOp.op = "change_status" /\ ret \in {"changed", "already"}
        /\ lastOp'.op = "change_status"
        /\ lastOp'.id = lastOp.id /\ lastOp'.status = lastOp.status) =>
          /\ books' = books
          /\ ret' = "already"
          /\ file' = file
          /\ wrote' = FALSE]_vars

C5_Witness ==
    /\ lastOp.op = "change_status" /\ lastOp.status = BORROWED
    /\ ret = "already" /\ ~ wrote
    /\ HasId(books, lastOp.id)
    /\ file = save_books(books)

-----------------------------------------------------------------------------
(* C6 *)

\* C6: for every malformed content of the backing file, load_books reports the
\* error and returns an empty list, so the service is constructed with an
\* empty collection and no exception leaves the constructor.
C6_MalformedRecovered ==
    Malformed(file0) =>
        /\ ctor.exc = "none"
        /\ ctor.printed
        /\ ctor.books = << >>

-----------------------------------------------------------------------------
(* C7 *)

\* The constructor caught the failure to read the file: it reported it and
\* started with an empty collection.
ParseFailed == Malformed(file0) /\ ctor.exc = "none"

\* C7 as stated: after a failed parse the backing file holds its original
\* content in every state of the session.
C7_OriginalKept == ParseFailed => file = file0

\* C7 amended: after a failed parse the collection starts empty and the file
\* holds its original content until the first add_book, which replaces it
\* with the one-record collection; remove_book, search_books and
\* change_status before it do not write the file.
C7_OriginalKeptUntilAdd ==
    ParseFailed =>
        /\ (lastOp.op = "__init__" => books = << >>)
        /\ (lastAssigned = None => file = file0 /\ books = << >>)
        /\ (lastAssigned # None => file # file0 /\ file = save_books(books))

C7_Witness ==
    /\ ParseFailed /\ file0 = GarbageFile
    /\ lastAssigned # None
    /\ lastOp.op = "remove_book" /\ ret = "removed"
    /\ books = << >>

-----------------------------------------------------------------------------
(* C8 *)

\* C8: add_book appends; remove_book of the id just assigned succeeds and
\* gives back the collection as it was before the add; and the add_book that
\* follows is assigned that same id again.
C8_AddRemoveRestores ==
    /\ [][AddedNext => Front(books') = books /\ Len(books') = Len(books) + 1]_vars
    /\ [][(Added /\ lastOp'.op = "remove_book"
           /\ Some(lastOp'.id) = lastAssigned) =>
             /\ ret' = "removed"
             /\ books' = Front(books)
             /\ undone' = lastAssigned]_vars
    /\ [][(undone # None /\ lastOp'.op = "add_book") =>
             /\ ret' = "added"
             /\ Last(books').book_id = undone]_vars

C8_Witness ==
    /\ Added
    /\ Len(books) = 2
    /\ lastAssigned = Some(2)
    /\ file0 = NoFile
    /\ books[1].status = BORROWED

-----------------------------------------------------------------------------
(* C9 *)

SameButStatus(a, b) ==
    /\ a.book_id = b.book_id /\ a.title = b.title
    /\ a.author = b.author /\ a.year = b.year

\* bs with the record at position k left out.
Without(bs, k) == [j \in 1..(Len(bs) - 1) |-> IF j < k THEN bs[j] ELSE bs[j + 1]]

\* C9: no call changes the id, title, author or year of a record;
\* change_status(id, s) changes at most the status of one record, which has
\* that id and gets status s, and keeps the number and order of the records.
C9_OnlyStatusChanges ==
    [][/\ lastOp'.op = "change_status" =>
            /\ Len(books') = Len(books)
            /\ \A i \in 1..Len(books) : SameButStatus(books'[i], books[i])
            /\ \A i \in 1..Len(books) :
                  books'[i].status # books[i].status =>
                      /\ books[i].book_id = Some(lastOp'.id)
                      /\ books'[i].status = lastOp'.status
                      /\ \A j \in 1..Len(books) : j # i => books'[j] = books[j]
       /\ lastOp'.op = "add_book" => books' = books \/ Front(books') = books
       /\ lastOp'.op = "search_books" => books' = books
       /\ lastOp'.op = "remove_book" =>
            \/ books' = books
            \/ \E k \in 1..Len(books) : books' = Without(books, k)]_vars

C9_Witness ==
    /\ lastOp.op = "change_status" /\ lastOp.id = 1 /\ ret = "changed"
    /\ Len(books) = 2
    /\ books[1].book_id = Some(2) /\ books[2].book_id = Some(1)
    /\ books[1].status = BORROWED /\ books[2].status = BORROWED

-----------------------------------------------------------------------------
(* C10 *)

SameIgnoringCase(c, d) == c = d \/ <<c, d>> \in CasePairs \/ <<d, c>> \in CasePairs

\* t occurs in s, letters compared ignoring case.
ContainsIgnoringCase(s, t) ==
    \E k \in 0..(Len(s) - Len(t)) :
        \A j \in 1..Len(t) : SameIgnoringCase(s[k + j], t[j])

\* t occurs in s.
Contains(s, t) ==
    \E k \in 0..(Len(s) - Len(t)) : \A j \in 1..Len(t) : s[k + j] = t[j]

TermMatches(book, term) ==
    \/ ContainsIgnoringCase(book.title, term)
    \/ ContainsIgnoringCase(book.author, term)
    \/ Contains(str_int(book.year), term)

\* C10: search_books(term) returns exactly the records whose title or author
\* contains the term ignoring case or whose year in decimal contains it, in
\* the collection's order, and changes neither the collection nor the file.
C10_SearchResult ==
    /\ [](lastOp.op = "search_books" =>
            result = SelectSeq(books, LAMBDA b : TermMatches(b, lastOp.term)))
    /\ [][lastOp'.op = "search_books" =>
            books' = books /\ file' = file /\ wrote' = FALSE]_vars

C10_Witness ==
    /\ lastOp.op = "search_books" /\ lastOp.term = <<"H", "E">>
    /\ Len(books) = 3
    /\ Len(result) = 2
    /\ result[1] = books[1] /\ result[2] = books[3]

====
